---- MODULE Spec2Model ----
(***************************************************************************)
(* VAST request validator (main.py): the rule table of                     *)
(* VastRequestValidator, the parsing and the tier-by-tier checking of      *)
(* validate_vast_request, the type checks of validate_param and            *)
(* validate_url, and the classification into errors and warnings done by   *)
(* main.                                                                   *)
(*                                                                         *)
(* Strings are TLA+ strings, i.e. sequences of characters: Len, SubSeq and *)
(* \o act on them, and a character is a string of length one.              *)
(***************************************************************************)
EXTENDS Integers, Sequences, FiniteSets, TLC

VARIABLES
  pc,                  \* "start", or the entry point that has returned
  request_shape,       \* how vast_request was written (read by no action)
  vast_request,        \* argument: the request string
  implementation_type, \* argument: the context name
  is_programmatic,     \* argument
  decode_params,       \* argument
  present_params,      \* returned dict: parameter name -> value
  issues,              \* returned list (errors + warnings)
  report               \* what main builds from the issues

vars == <<pc, request_shape, vast_request, implementation_type, is_programmatic,
          decode_params, present_params, issues, report>>

-----------------------------------------------------------------------------
(* Characters and character classes                                        *)

At(s, i) == SubSeq(s, i, i)

CharsOf(s) == {At(s, i) : i \in 1..Len(s)}

LOWER == "abcdefghijklmnopqrstuvwxyz"
UPPER == "ABCDEFGHIJKLMNOPQRSTUVWXYZ"

Digit ==
  { "0", "1", "2", "3", "4", "5", "6", "7", "8", "9" }

LowerLetter ==
  { "a", "b", "c", "d", "e", "f", "g", "h", "i", "j", "k", "l", "m", "n",
    "o", "p", "q", "r", "s", "t", "u", "v", "w", "x", "y", "z" }

UpperLetter ==
  { "A", "B", "C", "D", "E", "F", "G", "H", "I", "J", "K", "L", "M", "N",
    "O", "P", "Q", "R", "S", "T", "U", "V", "W", "X", "Y", "Z" }

Letter == LowerLetter \cup UpperLetter

\* Mutant of NameChar: the class [a-zA-Z0-9], without the underscore.
NameChar_without_underscore == Letter \cup Digit

\* The class [a-zA-Z0-9_] of the request pattern.
NameChar == Letter \cup Digit \cup {"_"}

\* The characters str.strip() and int() treat as whitespace.
Whitespace == {" ", "\t", "\n", "\r", "\f"}

\* str.lower() on one ASCII character.
LowerChar(c) ==
  IF c \in UpperLetter
    THEN At(LOWER, CHOOSE i \in 1..Len(UPPER) : At(UPPER, i) = c)
    ELSE c

\* Index of the first character of s at or after i that is not in class;
\* Len(s) + 1 if there is none.
SkipWhile(s, class, i) ==
  IF i > Len(s) THEN i
  ELSE CHOOSE j \in i..(Len(s) + 1) :
         /\ j > Len(s) \/ At(s, j) \notin class
         /\ \A h \in i..(j - 1) : At(s, h) \in class

\* Index of the first character of s at or after i that is in class;
\* Len(s) + 1 if there is none.
SkipUntil(s, class, i) ==
  IF i > Len(s) THEN i
  ELSE CHOOSE j \in i..(Len(s) + 1) :
         /\ j > Len(s) \/ At(s, j) \in class
         /\ \A h \in i..(j - 1) : At(s, h) \notin class

\* Index of the first occurrence of character c in s at or after i; 0 if none
\* (str.find, 1-based).
Find(s, c, i) ==
  LET j == SkipUntil(s, {c}, i)
  IN  IF j > Len(s) THEN 0 ELSE j

\* Index of the last character of s[1..j] that is not in class; 0 if none.
LastNotIn(s, class, j) ==
  IF j < 1 THEN j
  ELSE CHOOSE m \in 0..j :
         /\ m = 0 \/ At(s, m) \notin class
         /\ \A h \in (m + 1)..j : At(s, h) \in class

\* s from position i on, without the characters of class.
RECURSIVE Remove(_, _, _)
Remove(s, class, i) ==
  LET j == SkipUntil(s, class, i)
  IN  IF j > Len(s) THEN SubSeq(s, i, Len(s))
      ELSE SubSeq(s, i, j - 1) \o Remove(s, class, j + 1)

-----------------------------------------------------------------------------
(* The rule table, self.param_rules. A tier is the list of the items of    *)
(* the source's dict, in the order the dict literal gives them.            *)

web_required ==
  << <<"correlator", [type |-> "int"]>>,
     <<"description_url", [type |-> "url"]>>,
     <<"env", [type |-> "enum", allowed_values |-> <<"vp", "instream", "outstream">>]>>,
     <<"gdfp_req", [type |-> "int"]>>,
     <<"iu", [type |-> "str"]>>,
     <<"output", [type |-> "enum", allowed_values |-> <<"vast", "xml_vast2", "xml_vast3", "xml_vast4">>]>>,
     <<"sz", [type |-> "size"]>>,
     <<"unviewed_position_start", [type |-> "int"]>>,
     <<"url", [type |-> "url"]>>,
     <<"vpmute", [type |-> "bool"]>> >>

web_programmatic_required ==
  << <<"ott_placement", [type |-> "int"]>>,
     <<"plcmt", [type |-> "int"]>>,
     <<"vpa", [type |-> "bool"]>> >>

web_programmatic_recommended ==
  << <<"aconp", [type |-> "bool"]>>,
     <<"dth", [type |-> "int"]>>,
     <<"givn", [type |-> "str"]>>,
     <<"hl", [type |-> "str"]>>,
     <<"omid_p", [type |-> "str"]>>,
     <<"vconp", [type |-> "bool"]>>,
     <<"vid_d", [type |-> "int"]>>,
     <<"vpos", [type |-> "enum", allowed_values |-> <<"preroll", "midroll", "postroll", "1", "2", "3", "0">>]>>,
     <<"wta", [type |-> "int"]>> >>

app_required ==
  << <<"correlator", [type |-> "int"]>>,
     <<"description_url", [type |-> "url"]>>,
     <<"env", [type |-> "enum", allowed_values |-> <<"vp", "instream", "outstream">>]>>,
     <<"gdfp_req", [type |-> "int"]>>,
     <<"iu", [type |-> "str"]>>,
     <<"output", [type |-> "enum", allowed_values |-> <<"vast", "xml_vast2", "xml_vast3", "xml_vast4">>]>>,
     <<"sz", [type |-> "size"]>>,
     <<"unviewed_position_start", [type |-> "int"]>>,
     <<"url", [type |-> "url"]>>,
     <<"vpmute", [type |-> "bool"]>> >>

app_programmatic_required ==
  << <<"idtype", [type |-> "int"]>>,
     <<"is_lat", [type |-> "bool"]>>,
     <<"ott_placement", [type |-> "int"]>>,
     <<"plcmt", [type |-> "int"]>>,
     <<"rdid", [type |-> "str"]>>,
     <<"vpa", [type |-> "bool"]>> >>

app_programmatic_recommended ==
  << <<"aconp", [type |-> "bool"]>>,
     <<"an", [type |-> "str"]>>,
     <<"dth", [type |-> "int"]>>,
     <<"givn", [type |-> "str"]>>,
     <<"hl", [type |-> "str"]>>,
     <<"msid", [type |-> "str"]>>,
     <<"omid_p", [type |-> "str"]>>,
     <<"pvid", [type |-> "str"]>>,
     <<"sid", [type |-> "str"]>>,
     <<"vconp", [type |-> "bool"]>>,
     <<"vid_d", [type |-> "int"]>>,
     <<"vpos", [type |-> "enum", allowed_values |-> <<"preroll", "midroll", "postroll", "1", "2", "3", "0">>]>>,
     <<"wta", [type |-> "int"]>> >>

ctv_required ==
  << <<"correlator", [type |-> "int"]>>,
     <<"env", [type |-> "enum", allowed_values |-> <<"vp", "instream", "outstream">>]>>,
     <<"gdfp_req", [type |-> "int"]>>,
     <<"iu", [type |-> "str"]>>,
     <<"output", [type |-> "enum", allowed_values |-> <<"vast", "xml_vast2", "xml_vast3", "xml_vast4">>]>>,
     <<"sz", [type |-> "size"]>>,
     <<"url", [type |-> "url"]>> >>

ctv_programmatic_required ==
  << <<"idtype", [type |-> "int"]>>,
     <<"is_lat", [type |-> "bool"]>>,
     <<"ott_placement", [type |-> "int"]>>,
     <<"plcmt", [type |-> "int"]>>,
     <<"rdid", [type |-> "str"]>>,
     <<"vpa", [type |-> "bool"]>>,
     <<"vpmute", [type |-> "bool"]>> >>

ctv_programmatic_recommended ==
  << <<"aconp", [type |-> "bool"]>>,
     <<"an", [type |-> "str"]>>,
     <<"dth", [type |-> "int"]>>,
     <<"givn", [type |-> "str"]>>,
     <<"hl", [type |-> "str"]>>,
     <<"msid", [type |-> "str"]>>,
     <<"omid_p", [type |-> "str"]>>,
     <<"sid", [type |-> "str"]>>,
     <<"vconp", [type |-> "bool"]>>,
     <<"vid_d", [type |-> "int"]>>,
     <<"vpos", [type |-> "enum", allowed_values |-> <<"preroll", "midroll", "postroll", "1", "2", "3", "0">>]>>,
     <<"wta", [type |-> "int"]>> >>

audio_required ==
  << <<"ad_type", [type |-> "str"]>>,
     <<"correlator", [type |-> "int"]>>,
     <<"env", [type |-> "enum", allowed_values |-> <<"vp", "instream", "outstream">>]>>,
     <<"gdfp_req", [type |-> "int"]>>,
     <<"iu", [type |-> "str"]>>,
     <<"output", [type |-> "enum", allowed_values |-> <<"vast", "xml_vast2", "xml_vast3", "xml_vast4">>]>>,
     <<"url", [type |-> "url"]>> >>

audio_programmatic_required ==
  << <<"idtype", [type |-> "int"]>>,
     <<"is_lat", [type |-> "bool"]>>,
     <<"plcmt", [type |-> "int"]>>,
     <<"rdid", [type |-> "str"]>>,
     <<"vpa", [type |-> "bool"]>>,
     <<"vpmute", [type |-> "bool"]>> >>

audio_programmatic_recommended ==
  << <<"aconp", [type |-> "bool"]>>,
     <<"an", [type |-> "str"]>>,
     <<"dth", [type |-> "int"]>>,
     <<"givn", [type |-> "str"]>>,
     <<"hl", [type |-> "str"]>>,
     <<"msid", [type |-> "str"]>>,
     <<"omid_p", [type |-> "str"]>>,
     <<"sid", [type |-> "str"]>>,
     <<"vconp", [type |-> "bool"]>>,
     <<"vpos", [type |-> "enum", allowed_values |-> <<"preroll", "midroll", "postroll", "1", "2", "3", "0">>]>>,
     <<"wta", [type |-> "int"]>> >>

doh_required ==
  << <<"correlator", [type |-> "int"]>>,
     <<"env", [type |-> "enum", allowed_values |-> <<"vp", "instream", "outstream">>]>>,
     <<"gdfp_req", [type |-> "int"]>>,
     <<"iu", [type |-> "str"]>>,
     <<"output", [type |-> "enum", allowed_values |-> <<"vast", "xml_vast2", "xml_vast3", "xml_vast4">>]>>,
     <<"sz", [type |-> "size"]>>,
     <<"url", [type |-> "url"]>>,
     <<"vpmute", [type |-> "bool"]>> >>

doh_programmatic_required ==
  << <<"idtype", [type |-> "int"]>>,
     <<"is_lat", [type |-> "bool"]>>,
     <<"plcmt", [type |-> "int"]>>,
     <<"rdid", [type |-> "str"]>>,
     <<"sid", [type |-> "str"]>>,
     <<"venuetype", [type |-> "int"]>> >>

doh_programmatic_recommended ==
  << <<"aconp", [type |-> "bool"]>>,
     <<"an", [type |-> "str"]>>,
     <<"dth", [type |-> "int"]>>,
     <<"givn", [type |-> "str"]>>,
     <<"hl", [type |-> "str"]>>,
     <<"msid", [type |-> "str"]>>,
     <<"omid_p", [type |-> "str"]>> >>

param_rules ==
  [ web |-> [required |-> web_required, programmatic_required |-> web_programmatic_required, programmatic_recommended |-> web_programmatic_recommended],
    app |-> [required |-> app_required, programmatic_required |-> app_programmatic_required, programmatic_recommended |-> app_programmatic_recommended],
    ctv |-> [required |-> ctv_required, programmatic_required |-> ctv_programmatic_required, programmatic_recommended |-> ctv_programmatic_recommended],
    audio |-> [required |-> audio_required, programmatic_required |-> audio_programmatic_required, programmatic_recommended |-> audio_programmatic_recommended],
    doh |-> [required |-> doh_required, programmatic_required |-> doh_programmatic_required, programmatic_recommended |-> doh_programmatic_recommended] ]

\* The keys of self.param_rules, in insertion order.
param_rules_keys == <<"web", "app", "ctv", "audio", "doh">>

-----------------------------------------------------------------------------
(* urllib.parse.unquote                                                    *)

HEXDIGITS == "0123456789abcdef"
HEXDIGITS_UPPER == "0123456789ABCDEF"

HexDigit ==
  { "0", "1", "2", "3", "4", "5", "6", "7", "8", "9", "a", "b", "c", "d",
    "e", "f", "A", "B", "C", "D", "E", "F" }

HexVal(c) ==
  IF c \in Digit \cup LowerLetter
    THEN (CHOOSE i \in 1..16 : At(HEXDIGITS, i) = c) - 1
    ELSE (CHOOSE i \in 1..16 : At(HEXDIGITS_UPPER, i) = c) - 1

\* The ASCII characters 0x20 .. 0x5F and 0x61 .. 0x7E in code order.
PRINTABLE_LOW == " !\"#$%&'()*+,-./0123456789:;<=>?@ABCDEFGHIJKLMNOPQRSTUVWXYZ[\\]^_"
PRINTABLE_HIGH == "abcdefghijklmnopqrstuvwxyz{|}~"

\* The character a decoded byte stands for. A byte that is none of the
\* characters above, tab, line feed or carriage return is rendered as "?":
\* the requests of this model hold no such escape.
Chr(b) ==
  IF b >= 32 /\ b <= 95 THEN At(PRINTABLE_LOW, b - 31)
  ELSE IF b >= 97 /\ b <= 126 THEN At(PRINTABLE_HIGH, b - 96)
  ELSE IF b = 9 THEN "\t"
  ELSE IF b = 10 THEN "\n"
  ELSE IF b = 13 THEN "\r"
  ELSE "?"

\* unquote(s) from position i on: "%" followed by two hex digits becomes the
\* character with that code, anything else is kept as it is.
RECURSIVE unquote_from(_, _)
unquote_from(s, i) ==
  LET j == SkipUntil(s, {"%"}, i)
  IN  IF j > Len(s) THEN SubSeq(s, i, Len(s))
      ELSE IF /\ j + 2 <= Len(s)
              /\ At(s, j + 1) \in HexDigit
              /\ At(s, j + 2) \in HexDigit
        THEN SubSeq(s, i, j - 1)
               \o Chr(16 * HexVal(At(s, j + 1)) + HexVal(At(s, j + 2)))
               \o unquote_from(s, j + 3)
      ELSE SubSeq(s, i, j) \o unquote_from(s, j + 1)

unquote(s) == unquote_from(s, 1)

-----------------------------------------------------------------------------
(* validate_url: urlparse(url).scheme in ("http", "https") and a non-empty *)
(* netloc; a ValueError of urlparse gives False.                           *)

\* The characters urlsplit accepts in a scheme.
SchemeChar == Letter \cup Digit \cup {"+", "-", "."}

RECURSIVE LowerFrom(_, _)
LowerFrom(s, i) ==
  IF i > Len(s) THEN "" ELSE LowerChar(At(s, i)) \o LowerFrom(s, i + 1)

\* urlsplit's first steps: leading spaces are stripped, tabs and line breaks
\* are removed.
url_cleaned(url_string) ==
  LET t == SubSeq(url_string, SkipWhile(url_string, {" "}, 1), Len(url_string))
  IN  Remove(t, {"\t", "\n", "\r"}, 1)

\* [scheme, rest]: the scheme is what precedes the first ":" when that is a
\* letter followed by scheme characters, lower-cased; otherwise it is empty.
url_scheme_split(url) ==
  LET i == Find(url, ":", 1)
  IN  IF /\ i > 1
         /\ At(url, 1) \in Letter
         /\ SkipWhile(url, SchemeChar, 1) >= i
        THEN [scheme |-> LowerFrom(SubSeq(url, 1, i - 1), 1),
              rest   |-> SubSeq(url, i + 1, Len(url))]
        ELSE [scheme |-> "", rest |-> url]

\* The netloc: after a leading "//", what precedes the first of "/", "?", "#".
url_netloc(rest) ==
  IF Len(rest) >= 2 /\ SubSeq(rest, 1, 2) = "//"
    THEN SubSeq(rest, 3, SkipUntil(rest, {"/", "?", "#"}, 3) - 1)
    ELSE ""

\* urlsplit raises ValueError("Invalid IPv6 URL") for a netloc with one
\* bracket and not the other.
url_raises(netloc) ==
  LET cs == CharsOf(netloc)
  IN  ("[" \in cs) # ("]" \in cs)

\* Mutant of validate_url: only the scheme https is accepted.
validate_url_https_only(url_string) ==
  LET parts  == url_scheme_split(url_cleaned(url_string))
      netloc == url_netloc(parts.rest)
  IN  IF url_raises(netloc) THEN FALSE
      ELSE parts.scheme = "https" /\ netloc # ""

validate_url(url_string) ==
  LET parts  == url_scheme_split(url_cleaned(url_string))
      netloc == url_netloc(parts.rest)
  IN  IF url_raises(netloc) THEN FALSE
      ELSE parts.scheme \in {"http", "https"} /\ netloc # ""

-----------------------------------------------------------------------------
(* The type checks of validate_param                                       *)

\* Mutant of int_parses: the value is not stripped of its whitespace.
int_parses_without_strip(value) ==
  LET d == IF Len(value) > 0 /\ At(value, 1) \in {"+", "-"}
             THEN SubSeq(value, 2, Len(value)) ELSE value
  IN  /\ Len(d) > 0
      /\ \A i \in 1..Len(d) : At(d, i) \in Digit \cup {"_"}
      /\ At(d, 1) # "_"
      /\ At(d, Len(d)) # "_"
      /\ \A i \in 1..(Len(d) - 1) : ~(At(d, i) = "_" /\ At(d, i + 1) = "_")

\* int(value) does not raise: optional whitespace around an optional sign
\* and decimal digits, single underscores allowed between digits.
int_parses(value) ==
  LET a == SkipWhile(value, Whitespace, 1)
      b == LastNotIn(value, Whitespace, Len(value))
      t == SubSeq(value, a, b)
      d == IF Len(t) > 0 /\ At(t, 1) \in {"+", "-"}
             THEN SubSeq(t, 2, Len(t)) ELSE t
  IN  /\ Len(d) > 0
      /\ \A i \in 1..Len(d) : At(d, i) \in Digit \cup {"_"}
      /\ At(d, 1) # "_"
      /\ At(d, Len(d)) # "_"
      /\ \A i \in 1..(Len(d) - 1) : ~(At(d, i) = "_" /\ At(d, i + 1) = "_")

\* re.match(r"^\d+x\d+$", value): "$" also matches before one final line feed.
size_matches(value) ==
  LET a == SkipWhile(value, Digit, 1)
      b == SkipWhile(value, Digit, a + 1)
  IN  /\ a > 1
      /\ a <= Len(value)
      /\ At(value, a) = "x"
      /\ b > a + 1
      /\ \/ b = Len(value) + 1
         \/ b = Len(value) /\ At(value, b) = "\n"

InSeq(x, seq) == \E i \in 1..Len(seq) : seq[i] = x

RECURSIVE join(_, _)
\* sep.join(seq)
join(sep, seq) ==
  IF Len(seq) = 0 THEN ""
  ELSE IF Len(seq) = 1 THEN seq[1]
  ELSE seq[1] \o sep \o join(sep, Tail(seq))

Issue(param, type, message) ==
  [parameter |-> param, type |-> type, message |-> message]

\* Mutant of validate_param: the test for an empty value never holds (as with
\* "if value is None"), so an empty value goes on to the check of its type.
validate_param_without_empty_check(param, rules, value) ==
  IF rules.type = "int"
    THEN IF int_parses(value) THEN <<>>
         ELSE <<Issue(param, "invalid",
                      "Expected integer, got '" \o value \o "'")>>
  ELSE IF rules.type = "url"
    THEN IF validate_url(value) THEN <<>>
         ELSE <<Issue(param, "invalid", "Invalid URL: '" \o value \o "'")>>
  ELSE IF rules.type = "enum"
    THEN IF InSeq(value, rules.allowed_values) THEN <<>>
         ELSE <<Issue(param, "invalid",
                      "Invalid value. Allowed values: "
                        \o join(", ", rules.allowed_values))>>
  ELSE IF rules.type = "size"
    THEN IF size_matches(value) THEN <<>>
         ELSE <<Issue(param, "invalid",
                      "Expected format WIDTHxHEIGHT (e.g., 640x480)")>>
  ELSE IF rules.type = "bool"
    THEN IF value \in {"0", "1"} THEN <<>>
         ELSE <<Issue(param, "invalid",
                      "Expected 0 or 1, got '" \o value \o "'")>>
  ELSE <<>>

\* Mutant of validate_param: the branch of the type "bool" is left out.
validate_param_without_bool(param, rules, value) ==
  IF value = ""
    THEN <<Issue(param, "invalid", "Parameter value is empty")>>
  ELSE IF rules.type = "int"
    THEN IF int_parses(value) THEN <<>>
         ELSE <<Issue(param, "invalid",
                      "Expected integer, got '" \o value \o "'")>>
  ELSE IF rules.type = "url"
    THEN IF validate_url(value) THEN <<>>
         ELSE <<Issue(param, "invalid", "Invalid URL: '" \o value \o "'")>>
  ELSE IF rules.type = "enum"
    THEN IF InSeq(value, rules.allowed_values) THEN <<>>
         ELSE <<Issue(param, "invalid",
                      "Invalid value. Allowed values: "
                        \o join(", ", rules.allowed_values))>>
  ELSE IF rules.type = "size"
    THEN IF size_matches(value) THEN <<>>
         ELSE <<Issue(param, "invalid",
                      "Expected format WIDTHxHEIGHT (e.g., 640x480)")>>
  ELSE <<>>

\* validate_param(param, rules, value): the issues it appends to errors
\* (none or one).
validate_param(param, rules, value) ==
  IF value = ""
    THEN <<Issue(param, "invalid", "Parameter value is empty")>>
  ELSE IF rules.type = "int"
    THEN IF int_parses(value) THEN <<>>
         ELSE <<Issue(param, "invalid",
                      "Expected integer, got '" \o value \o "'")>>
  ELSE IF rules.type = "url"
    THEN IF validate_url(value) THEN <<>>
         ELSE <<Issue(param, "invalid", "Invalid URL: '" \o value \o "'")>>
  ELSE IF rules.type = "enum"
    THEN IF InSeq(value, rules.allowed_values) THEN <<>>
         ELSE <<Issue(param, "invalid",
                      "Invalid value. Allowed values: "
                        \o join(", ", rules.allowed_values))>>
  ELSE IF rules.type = "size"
    THEN IF size_matches(value) THEN <<>>
         ELSE <<Issue(param, "invalid",
                      "Expected format WIDTHxHEIGHT (e.g., 640x480)")>>
  ELSE IF rules.type = "bool"
    THEN IF value \in {"0", "1"} THEN <<>>
         ELSE <<Issue(param, "invalid",
                      "Expected 0 or 1, got '" \o value \o "'")>>
  ELSE <<>>

-----------------------------------------------------------------------------
(* validate_vast_request                                                   *)

EmptyDict == [k \in {} |-> ""]

\* Mutant of DictSet: d.setdefault(k, v), the first value of a key is kept.
DictSet_keeps_first(d, k, v) ==
  [x \in DOMAIN d \cup {k} |-> IF x \in DOMAIN d THEN d[x] ELSE v]

\* d[k] = v on a dict.
DictSet(d, k, v) ==
  [x \in DOMAIN d \cup {k} |-> IF x = k THEN v ELSE d[x]]

\* The loop over re.finditer(r"([a-zA-Z0-9_]+)=([^&]*)", vast_request), from
\* position i on: the dict present_params it leaves. A match starts at the
\* first position where a run of name characters is followed by "="; its
\* value runs to the next "&" or to the end, and the search goes on there.
RECURSIVE parse_from(_, _, _, _)
parse_from(s, i, decode, present) ==
  LET j == SkipUntil(s, NameChar, i)    \* where the next name can start
      k == SkipWhile(s, NameChar, j)    \* just after the longest name from j
  IN  IF j > Len(s) THEN present
      ELSE IF k <= Len(s) /\ At(s, k) = "="
        THEN LET e           == SkipUntil(s, {"&"}, k + 1)
                 param_name  == SubSeq(s, j, k - 1)
                 group2      == SubSeq(s, k + 1, e - 1)
                 param_value == IF decode THEN unquote(group2) ELSE group2
             IN  parse_from(s, e, decode,
                            DictSet(present, param_name, param_value))
        \* No "=" follows the run of name characters: no match starts
        \* anywhere in s[j..k-1], for every such start runs up to k - 1 too.
        ELSE parse_from(s, k, decode, present)

\* Mutant of parse_request: the whole request is decoded before it is matched.
parse_request_decodes_first(request, decode) ==
  parse_from(IF decode THEN unquote(request) ELSE request, 1, FALSE, EmptyDict)

parse_request(request, decode) == parse_from(request, 1, decode, EmptyDict)

\* Mutant of tier_issues: an absent parameter is reported whether or not the
\* tier is required.
RECURSIVE tier_issues_reports_every_absence(_, _, _, _, _)
tier_issues_reports_every_absence(param_dict, error_message, is_required, present, i) ==
  IF i > Len(param_dict) THEN <<>>
  ELSE
    LET param == param_dict[i][1]
        rules == param_dict[i][2]
        here  == IF param \notin DOMAIN present
                   THEN <<Issue(param, "missing", error_message)>>
                   ELSE validate_param(param, rules, present[param])
    IN  here \o tier_issues_reports_every_absence(
                  param_dict, error_message, is_required, present, i + 1)

\* The inner loop over param_dict.items(), from item i on.
RECURSIVE tier_issues(_, _, _, _, _)
tier_issues(param_dict, error_message, is_required, present, i) ==
  IF i > Len(param_dict) THEN <<>>
  ELSE
    LET param == param_dict[i][1]
        rules == param_dict[i][2]
        here  == IF param \notin DOMAIN present
                   THEN IF is_required
                          THEN <<Issue(param, "missing", error_message)>>
                          ELSE <<>>
                   ELSE validate_param(param, rules, present[param])
    IN  here \o tier_issues(param_dict, error_message, is_required, present,
                            i + 1)

\* Mutant of tier_list: the programmatic flag is given to the required tier
\* as well.
tier_list_flags_required_tier(programmatic) ==
  << [key |-> "required",
      error_message |-> "Missing required parameter",
      is_required |-> programmatic],
     [key |-> "programmatic_required",
      error_message |-> "Missing required programmatic parameter",
      is_required |-> programmatic],
     [key |-> "programmatic_recommended",
      error_message |-> "Recommended programmatic parameter not found",
      is_required |-> FALSE] >>

\* Mutant of tier_list: the programmatic_required tier comes first.
tier_list_programmatic_first(programmatic) ==
  << [key |-> "programmatic_required",
      error_message |-> "Missing required programmatic parameter",
      is_required |-> programmatic],
     [key |-> "required",
      error_message |-> "Missing required parameter",
      is_required |-> TRUE],
     [key |-> "programmatic_recommended",
      error_message |-> "Recommended programmatic parameter not found",
      is_required |-> FALSE] >>

\* The list the outer loop runs over; key names the dict of the rules that
\* param_dict is.
tier_list(programmatic) ==
  << [key |-> "required",
      error_message |-> "Missing required parameter",
      is_required |-> TRUE],
     [key |-> "programmatic_required",
      error_message |-> "Missing required programmatic parameter",
      is_required |-> programmatic],
     [key |-> "programmatic_recommended",
      error_message |-> "Recommended programmatic parameter not found",
      is_required |-> FALSE] >>

\* Mutant of tier_step: no tier is skipped.
tier_step_without_skip(rules, t, present) ==
  tier_issues(rules[t.key], t.error_message, t.is_required, present, 1)

\* One pass of the outer loop: the tier that is the programmatic_required
\* dict is skipped when it is not required.
tier_step(rules, t, present) ==
  IF ~t.is_required /\ t.key = "programmatic_required"
    THEN <<>>
    ELSE tier_issues(rules[t.key], t.error_message, t.is_required, present, 1)

unknown_type_issue(type) ==
  Issue("implementation_type", "invalid",
        "Invalid implementation type: '" \o type \o "'. Allowed types are: "
          \o join(", ", param_rules_keys))

\* Mutant of validate_vast_request: the request is parsed before the
\* implementation type is looked up.
validate_vast_request_parses_first(request, type, programmatic, decode) ==
  IF ~InSeq(type, param_rules_keys)
    THEN [present_params |-> parse_request(request, decode),
          issues |-> <<unknown_type_issue(type)>>]
    ELSE
      LET present == parse_request(request, decode)
          rules   == param_rules[type]
          tiers   == tier_list(programmatic)
      IN  [present_params |-> present,
           issues |-> tier_step(rules, tiers[1], present)
                        \o tier_step(rules, tiers[2], present)
                        \o tier_step(rules, tiers[3], present)]

\* validate_vast_request(...): [present_params, issues].
validate_vast_request(request, type, programmatic, decode) ==
  IF ~InSeq(type, param_rules_keys)
    THEN [present_params |-> EmptyDict,
          issues |-> <<unknown_type_issue(type)>>]
    ELSE
      LET present  == parse_request(request, decode)
          rules    == param_rules[type]
          tiers    == tier_list(programmatic)
          errors   == tier_step(rules, tiers[1], present)
                        \o tier_step(rules, tiers[2], present)
                        \o tier_step(rules, tiers[3], present)
          warnings == <<>>
      IN  [present_params |-> present, issues |-> errors \o warnings]

-----------------------------------------------------------------------------
(* main: the classification of the returned issues (lines 460-475)         *)

\* [issue for issue in issues if pred(issue["type"])]
RECURSIVE filter_issues(_, _, _)
filter_issues(list, types, keep_in) ==
  IF Len(list) = 0 THEN <<>>
  ELSE (IF (Head(list).type \in types) = keep_in THEN <<Head(list)>> ELSE <<>>)
         \o filter_issues(Tail(list), types, keep_in)

\* The choices argparse allows for --implementation_type.
main_choices == <<"web", "app", "ctv", "audio", "doh">>

main_output(present, list) ==
  LET errors   == filter_issues(list, {"invalid", "missing"}, TRUE)
      warnings == filter_issues(list, {"invalid", "missing"}, FALSE)
  IN  [valid |-> errors = <<>>,
       errors |-> errors,
       warnings |-> warnings,
       present_parameters |-> present]

-----------------------------------------------------------------------------
(* The requests the model validates                                        *)

\* How many parameters of a base request may be left out together.
MaxOmitted == 1

\* How many times the extra name=value pair of a request is written.
MaxCopies == 1

\* The values the repository's tests give to the parameters they write.
TestValues ==
  [ correlator |-> "123", description_url |-> "http://example.com",
    env |-> "vp", gdfp_req |-> "1", iu |-> "/123/example", output |-> "vast",
    sz |-> "640x480", unviewed_position_start |-> "1",
    url |-> "http://example.com", vpmute |-> "0", idtype |-> "1",
    is_lat |-> "0", ott_placement |-> "1", plcmt |-> "2",
    rdid |-> "test_rdid", vpa |-> "1" ]

\* A valid value of a parameter: the tests' value, or one of its type.
valid_value(param, rules) ==
  IF param \in DOMAIN TestValues THEN TestValues[param]
  ELSE IF rules.type = "int" THEN "1"
  ELSE IF rules.type = "bool" THEN "0"
  ELSE "test_" \o param

\* The values that replace the value of one parameter of a request.
Values ==
  { "", "1", "2", "-5", " 12", "12 ", "1_0", "%31", "12%20", "abc", "VP",
    "640X480", "HTTP://example.com", "ftp://example.com", "example.com",
    "https://example.com/path?query=value", "http%3A%2F%2Fexample.com",
    "a%26b%3D1", "%zz" }

\* The values of the extra pair of a request.
ExtraValues == {"", "1", "abc"}

\* The values a request may give to every parameter alike.
FillValues == {"1"}

\* Names written in a request beside those its context declares: one that no
\* context declares, and two that other contexts declare.
OtherNames == {"foo", "venuetype", "ad_type"}

SeqRange(seq) == {seq[i] : i \in 1..Len(seq)}

tier_names(tier) == {tier[i][1] : i \in 1..Len(tier)}

declared_names(type) ==
  tier_names(param_rules[type].required)
    \cup tier_names(param_rules[type].programmatic_required)
    \cup tier_names(param_rules[type].programmatic_recommended)

\* The name=value pairs of a request that satisfies the context: the required
\* tier and, with_programmatic, the programmatic_required tier, in declared
\* order; fill is "valid" or the one value every parameter carries.
base_pairs(type, with_programmatic, fill) ==
  LET tier == param_rules[type].required
                \o (IF with_programmatic
                      THEN param_rules[type].programmatic_required ELSE <<>>)
  IN  [i \in 1..Len(tier) |->
         <<tier[i][1],
           IF fill = "valid" THEN valid_value(tier[i][1], tier[i][2])
           ELSE fill>>]

Reverse(seq) == [i \in 1..Len(seq) |-> seq[Len(seq) + 1 - i]]

\* seq from index i on, without the elements at the indices in omitted.
RECURSIVE Without(_, _, _)
Without(seq, omitted, i) ==
  IF i > Len(seq) THEN <<>>
  ELSE (IF i \in omitted THEN <<>> ELSE <<seq[i]>>)
         \o Without(seq, omitted, i + 1)

Copies(pair, n) == [i \in 1..n |-> pair]

\* The request string of a list of pairs.
request_of(pairs) ==
  join("&", [i \in 1..Len(pairs) |-> pairs[i][1] \o "=" \o pairs[i][2]])

\* The request of the repository's test_validate_vast_request_web_required.
WebRequiredRequest ==
  "correlator=123&description_url=http://example.com&env=vp&gdfp_req=1&iu=/123/example&output=vast&sz=640x480&unviewed_position_start=1&url=http://example.com&vpmute=0"

\* Requests that are no list of pairs, or more than one.
OddRequests ==
  { "", "correlator", "=1", "&&", "a b=1&c-d=2",
    "url=http://example.com?x=1&y==2",
    "https://pubads.example.net/gampad/ads?" \o WebRequiredRequest }

UnknownTypes == {"bogus", "WEB", ""}

\* How a request is written. kind "list": the base pairs of base_type, in
\* declared or reversed order, without those at the indices in omitted;
\* "replaced": the base pairs with the value at index replaced by value;
\* "prepended", "appended": the base pairs with copies of name=value before
\* or after them; "text": the string text.
Shape(kind, base_type, wp, fill, reversed, omitted, index, name, value, copies, text) ==
  [kind |-> kind, base_type |-> base_type, with_programmatic |-> wp,
   fill |-> fill, reversed |-> reversed, omitted |-> omitted,
   index |-> index, name |-> name, value |-> value, copies |-> copies,
   text |-> text]

\* The base pairs of a shape, in the order the shape writes them.
shape_base(sh) ==
  LET base == base_pairs(sh.base_type, sh.with_programmatic, sh.fill)
  IN  IF sh.reversed THEN Reverse(base) ELSE base

\* The request string a shape stands for.
request_text(sh) ==
  IF sh.kind = "text" THEN sh.text
  ELSE IF sh.kind = "list"
    THEN request_of(Without(shape_base(sh), sh.omitted, 1))
  ELSE IF sh.kind = "replaced"
    THEN request_of([shape_base(sh) EXCEPT ![sh.index] = <<sh.name, sh.value>>])
  ELSE IF sh.kind = "prepended"
    THEN request_of(Copies(<<sh.name, sh.value>>, sh.copies) \o shape_base(sh))
  ELSE request_of(shape_base(sh) \o Copies(<<sh.name, sh.value>>, sh.copies))

TextShapes(type) ==
  { Shape("text", type, FALSE, "valid", FALSE, {}, 0, "", "", 0, t) :
      t \in OddRequests \cup {WebRequiredRequest} }

\* Up to MaxOmitted parameters left out of a base request that is written in
\* declared or in reverse order, with valid values or with one value for every
\* parameter.
ListShapes(type) ==
  UNION { { Shape("list", type, wp, fill, rev, om, 0, "", "", 0, "") :
              om \in { o \in SUBSET (1..Len(base_pairs(type, wp, fill))) :
                         Cardinality(o) <= MaxOmitted } }
        : wp \in BOOLEAN, fill \in {"valid"} \cup FillValues,
          rev \in BOOLEAN }

\* One value replaced in the base request that holds every required and
\* programmatic_required parameter at a valid value.
ReplacedShapes(type) ==
  LET base == base_pairs(type, TRUE, "valid")
  IN  { Shape("replaced", type, TRUE, "valid", FALSE, {}, i, base[i][1], v,
              0, "") : i \in 1..Len(base), v \in Values }

\* An extra pair written before or after a valid base request.
ExtraShapes(type) ==
  { Shape(kind, type, wp, "valid", FALSE, {}, 0, n, v, c, "") :
      kind \in {"prepended", "appended"}, wp \in BOOLEAN,
      n \in declared_names(type) \cup OtherNames, v \in ExtraValues,
      c \in 1..MaxCopies }

Shapes(type) ==
  IF InSeq(type, param_rules_keys)
    THEN TextShapes(type) \cup ListShapes(type) \cup ReplacedShapes(type)
           \cup ExtraShapes(type)
    ELSE TextShapes("web")
           \cup { Shape("list", t, wp, "valid", FALSE, {}, 0, "", "", 0, "") :
                    t \in SeqRange(param_rules_keys), wp \in BOOLEAN }

NoReport == [valid |-> FALSE, errors |-> <<>>, warnings |-> <<>>,
             present_parameters |-> EmptyDict]

-----------------------------------------------------------------------------
(* The state machine                                                       *)

Init ==
  /\ pc = "start"
  /\ implementation_type \in SeqRange(param_rules_keys) \cup UnknownTypes
  /\ request_shape \in Shapes(implementation_type)
  /\ vast_request = request_text(request_shape)
  /\ is_programmatic \in BOOLEAN
  /\ decode_params \in BOOLEAN
  /\ present_params = EmptyDict
  /\ issues = <<>>
  /\ report = NoReport

\* A call of validate_vast_request with the arguments of the state.
call_validate_vast_request ==
  /\ pc = "start"
  /\ LET r == validate_vast_request(vast_request, implementation_type,
                                    is_programmatic, decode_params)
     IN  /\ present_params' = r.present_params
         /\ issues' = r.issues
  /\ pc' = "returned"
  /\ UNCHANGED <<request_shape, vast_request, implementation_type,
                 is_programmatic, decode_params, report>>

\* main after its call of validate_vast_request: argparse has let only the
\* five choices through.
main ==
  /\ pc = "returned"
  /\ InSeq(implementation_type, main_choices)
  /\ report' = main_output(present_params, issues)
  /\ pc' = "reported"
  /\ UNCHANGED <<request_shape, vast_request, implementation_type,
                 is_programmatic, decode_params, present_params, issues>>

Next == call_validate_vast_request \/ main

Spec == Init /\ [][Next]_vars

-----------------------------------------------------------------------------
(* Properties of validate_vast_request                                     *)

Returned == pc # "start"

Known == InSeq(implementation_type, param_rules_keys)

\* The issues of the list that name parameter p.
IssuesNaming(p) == {k \in 1..Len(issues) : issues[k].parameter = p}

\* The list is exactly one issue of the given type naming p.
OnlyIssue(type, p) ==
  /\ Len(issues) = 1
  /\ issues[1].type = type
  /\ issues[1].parameter = p

\* The request holds the pairs of a valid base request, all but those omitted.
ValidList ==
  /\ request_shape.kind = "list"
  /\ request_shape.fill = "valid"
  /\ request_shape.base_type = implementation_type

\* Stored values that fail the check of a type, whatever the decode flag was.
FailingValues(rules) ==
  IF rules.type = "int"
    THEN {"abc", "VP", "640X480", "12%20", "%31", "example.com", "%zz"}
  ELSE IF rules.type = "url"
    THEN {"abc", "1", "example.com", "ftp://example.com", "%zz"}
  ELSE IF rules.type = "enum"
    THEN {"abc", "VP", "1", "2", "-5"} \ SeqRange(rules.allowed_values)
  ELSE IF rules.type = "size"
    THEN {"abc", "640X480", "1", "-5"}
  ELSE IF rules.type = "bool"
    THEN {"abc", "2", "-5", " 12", "VP"}
  ELSE {}

\* The rules a context declares for parameter p in the tier named key.
RulesIn(key, p) ==
  LET tier == param_rules[implementation_type][key]
  IN  tier[CHOOSE i \in 1..Len(tier) : tier[i][1] = p][2]

TierNames(key) == tier_names(param_rules[implementation_type][key])

\* C1: for every known context and every parameter p of its required tier,
\* a request that holds every required parameter but p, all at valid values,
\* validated with programmatic=false, returns exactly one issue: 'missing',
\* naming p.
C1_OmittedRequiredIsTheOnlyIssue ==
  ( /\ Returned
    /\ Known
    /\ ~is_programmatic
    /\ ValidList
    /\ ~request_shape.with_programmatic
    /\ Cardinality(request_shape.omitted) = 1 )
  => LET i == CHOOSE i \in request_shape.omitted : TRUE
     IN  OnlyIssue("missing", shape_base(request_shape)[i][1])

\* C1 witness: the request of test_validate_vast_request_web_missing_required
\* has returned the one issue for vpmute.
C1_Witness ==
  /\ pc = "returned"
  /\ implementation_type = "web"
  /\ ~is_programmatic
  /\ vast_request = "correlator=123&description_url=http://example.com&env=vp&gdfp_req=1&iu=/123/example&output=vast&sz=640x480&unviewed_position_start=1&url=http://example.com"
  /\ request_shape.kind = "list"
  /\ request_shape.omitted = {10}
  /\ OnlyIssue("missing", "vpmute")

\* C2: for every known context and both values of the programmatic flag, a
\* request that holds every required parameter (and, when programmatic, every
\* programmatic_required parameter) at valid values and nothing else returns
\* an empty issue list.
C2_CompleteRequestHasNoIssue ==
  ( /\ Returned
    /\ Known
    /\ ValidList
    /\ request_shape.with_programmatic = is_programmatic
    /\ request_shape.omitted = {} )
  => issues = <<>>

\* C2 witness: the request of
\* test_validate_vast_request_ctv_programmatic_required has returned no issue.
C2_Witness ==
  /\ pc = "returned"
  /\ implementation_type = "ctv"
  /\ is_programmatic
  /\ vast_request = "correlator=123&env=vp&gdfp_req=1&iu=/123/example&output=vast&sz=640x480&url=http://example.com&idtype=1&is_lat=0&ott_placement=1&plcmt=2&rdid=test_rdid&vpa=1&vpmute=0"
  /\ Cardinality(DOMAIN present_params) = 14
  /\ issues = <<>>

\* A present parameter of the programmatic_required tier whose value is empty
\* or fails the check of its declared type.
BadProgrammaticParam(p) ==
  /\ p \in TierNames("programmatic_required")
  /\ p \in DOMAIN present_params
  /\ present_params[p] \in
       {""} \cup FailingValues(RulesIn("programmatic_required", p))

\* C3 as stated: a present parameter of the programmatic_required tier whose
\* value is empty or fails its type check gets an 'invalid' issue, also when
\* programmatic=false.
C3_AsStated ==
  (Returned /\ Known)
  => \A p \in TierNames("programmatic_required") :
       BadProgrammaticParam(p)
       => \E k \in IssuesNaming(p) : issues[k].type = "invalid"

\* C3 amended: a present parameter of the programmatic_required tier is
\* type-checked only when programmatic=true: then an empty or failing value
\* gets an 'invalid' issue naming it; when programmatic=false the tier is
\* skipped and no issue names the parameter.
C3_ProgrammaticTierCheckedOnlyWhenProgrammatic ==
  (Returned /\ Known)
  => \A p \in TierNames("programmatic_required") :
       /\ (BadProgrammaticParam(p) /\ is_programmatic)
          => \E k \in IssuesNaming(p) : issues[k].type = "invalid"
       /\ ~is_programmatic => IssuesNaming(p) = {}

\* C3 witness: programmatic=false, plcmt=abc is present and no issue names it.
C3_Witness ==
  /\ pc = "returned"
  /\ implementation_type = "web"
  /\ ~is_programmatic
  /\ "plcmt" \in DOMAIN present_params
  /\ present_params["plcmt"] = "abc"
  /\ IssuesNaming("plcmt") = {}
  /\ issues = <<>>

\* C4 as stated: every absent parameter of the programmatic_recommended tier
\* gets an issue that is neither 'missing' nor 'invalid', with the message
\* "Recommended programmatic parameter not found".
C4_AsStated ==
  (Returned /\ Known)
  => \A p \in TierNames("programmatic_recommended") :
       p \notin DOMAIN present_params
       => \E k \in IssuesNaming(p) :
            /\ issues[k].type \notin {"missing", "invalid"}
            /\ issues[k].message =
                 "Recommended programmatic parameter not found"

\* C5: for an implementation type outside web, app, ctv, audio, doh the
\* returned dict is empty, whatever the request holds, and the issue list is
\* exactly one 'invalid' issue for 'implementation_type'.
C5_UnknownTypeReturnsOneIssueAndNoParams ==
  (Returned /\ ~Known)
  => /\ DOMAIN present_params = {}
     /\ OnlyIssue("invalid", "implementation_type")

\* C5 witness: "bogus" with the web request of the tests has returned.
C5_Witness ==
  /\ pc = "returned"
  /\ implementation_type = "bogus"
  /\ vast_request = WebRequiredRequest
  /\ DOMAIN present_params = {}
  /\ Len(issues) = 1

\* The request holds every required and programmatic_required parameter at a
\* valid value, but for parameter name: the value stored for it fails the
\* check of the type the tier named key declares for it.
OneFailingValue(key) ==
  /\ request_shape.base_type = implementation_type
  /\ request_shape.with_programmatic
  /\ request_shape.name \in TierNames(key)
  /\ request_shape.name \in DOMAIN present_params
  /\ present_params[request_shape.name]
       \in FailingValues(RulesIn(key, request_shape.name))
  /\ IF key = "programmatic_recommended"
       THEN request_shape.kind = "appended"
       ELSE request_shape.kind = "replaced"

\* C6 as stated: for every known context, both values of the programmatic
\* flag and every parameter p of any tier, a request in which p carries a
\* failing value and all else is valid and present returns exactly one issue:
\* 'invalid', naming p.
C6_AsStated ==
  (Returned /\ Known)
  => \A key \in {"required", "programmatic_required",
                 "programmatic_recommended"} :
       OneFailingValue(key) => OnlyIssue("invalid", request_shape.name)

\* C6 amended: the same for every parameter p of the required tier, of the
\* programmatic_recommended tier and, when programmatic=true, of the
\* programmatic_required tier; when programmatic=false a failing value of a
\* programmatic_required parameter returns no issue at all.
C6_OneFailingValueIsTheOnlyIssue ==
  (Returned /\ Known)
  => /\ \A key \in {"required", "programmatic_recommended"} :
          OneFailingValue(key) => OnlyIssue("invalid", request_shape.name)
     /\ OneFailingValue("programmatic_required")
          => IF is_programmatic
               THEN OnlyIssue("invalid", request_shape.name)
               ELSE issues = <<>>

\* C6 witness: the web request of test_validate_vast_request_web_invalid_param_type
\* with the programmatic parameters added, programmatic=true: one issue, for
\* correlator=abc.
C6_Witness ==
  /\ pc = "returned"
  /\ implementation_type = "web"
  /\ is_programmatic
  /\ request_shape.kind = "replaced"
  /\ vast_request = "correlator=abc&description_url=http://example.com&env=vp&gdfp_req=1&iu=/123/example&output=vast&sz=640x480&unviewed_position_start=1&url=http://example.com&vpmute=0&ott_placement=1&plcmt=2&vpa=1"
  /\ OnlyIssue("invalid", "correlator")

\* The parameters of a context in the order required, programmatic_required,
\* programmatic_recommended, each tier in declared order.
DeclaredOrder ==
  LET r == param_rules[implementation_type]
      all == r.required \o r.programmatic_required
               \o r.programmatic_recommended
  IN  [i \in 1..Len(all) |-> all[i][1]]

\* The first place of p in DeclaredOrder.
Rank(p) ==
  CHOOSE i \in 1..Len(DeclaredOrder) :
    /\ DeclaredOrder[i] = p
    /\ \A j \in 1..(i - 1) : DeclaredOrder[j] # p

\* C7: in the issue list of a known context the issues follow the tiers
\* (required, programmatic_required, programmatic_recommended) and, within a
\* tier, the declared order of the parameters, whatever the order of the
\* request and whether an issue is 'missing' or 'invalid'.
C7_IssuesInDeclaredOrder ==
  (Returned /\ Known)
  => \A j, k \in 1..Len(issues) :
       j < k => Rank(issues[j].parameter) < Rank(issues[k].parameter)

\* C7 witness: a request written in reverse order, with 'invalid' and
\* 'missing' issues in the required tier followed by 'missing' issues of the
\* programmatic_required tier.
C7_Witness ==
  /\ pc = "returned"
  /\ implementation_type = "web"
  /\ is_programmatic
  /\ request_shape.kind = "list"
  /\ request_shape.reversed
  /\ request_shape.fill = "1"
  /\ request_shape.omitted = {1}
  /\ Len(issues) = 9
  /\ issues[1].parameter = "description_url" /\ issues[1].type = "invalid"
  /\ issues[5].parameter = "url" /\ issues[5].type = "invalid"
  /\ issues[6].parameter = "vpmute" /\ issues[6].type = "missing"
  /\ issues[7].parameter = "ott_placement" /\ issues[7].type = "missing"
  /\ issues[9].parameter = "vpa" /\ issues[9].type = "missing"

\* The tier of the called context that declares p and is evaluated: "none"
\* when p is declared by no tier, or only by the programmatic_required tier
\* while programmatic=false.
EvaluatedTier(p) ==
  IF p \in TierNames("required") THEN "required"
  ELSE IF is_programmatic /\ p \in TierNames("programmatic_required")
    THEN "programmatic_required"
  ELSE IF p \in TierNames("programmatic_recommended")
    THEN "programmatic_recommended"
  ELSE "none"

\* The request writes parameter name more than once: the extra pair and the
\* pair of the valid base request.
WrittenTwice ==
  /\ request_shape.kind \in {"prepended", "appended"}
  /\ request_shape.base_type = implementation_type
  /\ \E i \in 1..Len(shape_base(request_shape)) :
       shape_base(request_shape)[i][1] = request_shape.name

MissingIssues(list) == filter_issues(list, {"missing"}, TRUE)

\* C9: for a known context the calls with decode_params=False and with
\* decode_params=True return dicts with the same keys and the same 'missing'
\* issues; only the stored values may differ.
C9_DecodingKeepsTheKeys ==
  (pc = "returned" /\ Known)
  => LET other == validate_vast_request(vast_request, implementation_type,
                                        is_programmatic, ~decode_params)
     IN  /\ DOMAIN other.present_params = DOMAIN present_params
         /\ MissingIssues(other.issues) = MissingIssues(issues)

\* C9 witness: the value a%26b%3D1 was decoded to a&b=1 and added no key b.
C9_Witness ==
  /\ pc = "returned"
  /\ Known
  /\ decode_params
  /\ request_shape.kind = "replaced"
  /\ request_shape.value = "a%26b%3D1"
  /\ present_params[request_shape.name] = "a&b=1"
  /\ "b" \notin DOMAIN present_params

\* The call of test_validate_vast_request_web_required has returned.
WebRequiredCallReturned ==
  /\ Returned
  /\ vast_request = WebRequiredRequest
  /\ implementation_type = "web"
  /\ ~is_programmatic
  /\ ~decode_params

\* C10 as stated: that call returns zero issues and a dict of nine entries.
C10_AsStated ==
  WebRequiredCallReturned
  => /\ issues = <<>>
     /\ Cardinality(DOMAIN present_params) = 9

\* C10 amended: that call returns zero issues and a dict of ten entries, one
\* for each of the ten parameters the request writes.
C10_WebRequiredRequestTenParams ==
  WebRequiredCallReturned
  => /\ issues = <<>>
     /\ Cardinality(DOMAIN present_params) = 10
     /\ DOMAIN present_params = tier_names(web_required)

\* C10 witness: the call has returned, with unviewed_position_start among the
\* keys.
C10_Witness ==
  /\ WebRequiredCallReturned
  /\ pc = "returned"
  /\ request_shape.kind = "text"
  /\ "unviewed_position_start" \in DOMAIN present_params
  /\ present_params["description_url"] = "http://example.com"

\* C11: a parameter that a tier evaluated in the call declares and that is
\* stored with the empty value gets exactly one issue, of type 'invalid' and
\* with the message "Parameter value is empty", whatever the type declared
\* for it (int, url, enum, size, bool or str): no issue of its type check and
\* no 'missing' issue names it.
C11_EmptyValueIsOneInvalidIssue ==
  (Returned /\ Known)
  => \A p \in DOMAIN present_params :
       (EvaluatedTier(p) # "none" /\ present_params[p] = "")
       => /\ Cardinality(IssuesNaming(p)) = 1
          /\ \A k \in IssuesNaming(p) :
               issues[k] = Issue(p, "invalid", "Parameter value is empty")

\* C11 witness: "iu=" in a web request, iu being of type str, has returned
\* the one issue for the empty value.
C11_Witness ==
  /\ pc = "returned"
  /\ implementation_type = "web"
  /\ request_shape.kind = "replaced"
  /\ request_shape.name = "iu"
  /\ RulesIn("required", "iu").type = "str"
  /\ present_params["iu"] = ""
  /\ issues = <<Issue("iu", "invalid", "Parameter value is empty")>>

\* An optional sign followed by decimal digits, and nothing else.
SignedDigits(v) ==
  LET d == IF Len(v) > 0 /\ At(v, 1) \in {"+", "-"}
             THEN SubSeq(v, 2, Len(v)) ELSE v
  IN  /\ Len(d) > 0
      /\ \A i \in 1..Len(d) : At(d, i) \in Digit

\* SignedDigits with any number of spaces before and after.
SpacedSignedDigits(v) ==
  \E a, b \in 1..Len(v) :
    /\ a <= b
    /\ \A i \in 1..(a - 1) : At(v, i) = " "
    /\ \A i \in (b + 1)..Len(v) : At(v, i) = " "
    /\ SignedDigits(SubSeq(v, a, b))

\* v holds a character that no integer literal holds.
HasForeignChar(v) ==
  \E i \in 1..Len(v) :
    At(v, i) \notin Digit \cup Whitespace \cup {"+", "-", "_"}

\* The parameters of type int that a tier evaluated in the call declares and
\* that are stored with a value that is not empty.
IntParams ==
  { p \in DOMAIN present_params :
      /\ EvaluatedTier(p) # "none"
      /\ RulesIn(EvaluatedTier(p), p).type = "int"
      /\ present_params[p] # "" }

\* C12 as stated: a present parameter of type int with a non-empty value gets
\* an 'invalid' issue unless the value is an optional sign followed by decimal
\* digits with no whitespace around them; " 12" and "12 " are reported.
C12_AsStated ==
  (Returned /\ Known)
  => \A p \in IntParams :
       ~SignedDigits(present_params[p])
       => \E k \in IssuesNaming(p) : issues[k].type = "invalid"

\* C12 amended: a present parameter of type int whose value is an optional
\* sign followed by decimal digits gets no issue, with or without spaces
\* before and after it (" 12", and "12 " written so or decoded from 12%20);
\* a value that holds a character other than digits, signs, underscores and
\* whitespace gets the one issue "Expected integer, got '<value>'".
C12_IntAcceptsSurroundingSpaces ==
  (Returned /\ Known)
  => \A p \in IntParams :
       /\ SpacedSignedDigits(present_params[p]) => IssuesNaming(p) = {}
       /\ HasForeignChar(present_params[p])
          => /\ Cardinality(IssuesNaming(p)) = 1
             /\ \A k \in IssuesNaming(p) :
                  issues[k] = Issue(p, "invalid",
                                    "Expected integer, got '"
                                      \o present_params[p] \o "'")

\* C12 witness: correlator=12%20 was decoded to "12 " and has returned no
\* issue.
C12_Witness ==
  /\ pc = "returned"
  /\ implementation_type = "web"
  /\ decode_params
  /\ request_shape.kind = "replaced"
  /\ request_shape.name = "correlator"
  /\ request_shape.value = "12%20"
  /\ present_params["correlator"] = "12 "
  /\ "correlator" \in IntParams
  /\ issues = <<>>

\* a is a subsequence of b: from place i of a and place j of b on, the
\* elements of a occur in b in their order.
RECURSIVE IsSubsequenceFrom(_, _, _, _)
IsSubsequenceFrom(a, b, i, j) ==
  IF i > Len(a) THEN TRUE
  ELSE IF j > Len(b) THEN FALSE
  ELSE IF a[i] = b[j] THEN IsSubsequenceFrom(a, b, i + 1, j + 1)
  ELSE IsSubsequenceFrom(a, b, i, j + 1)

\* The issues of list that name no parameter of names, in their order.
IssuesNotNaming(list, names) ==
  LET Other(issue) == issue.parameter \notin names
  IN  SelectSeq(list, Other)

\* The parameters the called context declares in its programmatic_required
\* tier and in no other tier.
ProgrammaticOnly ==
  TierNames("programmatic_required")
    \ (TierNames("required") \cup TierNames("programmatic_recommended"))

\* The issue list the same call returns with the given programmatic flag.
IssuesWith(programmatic) ==
  IF programmatic = is_programmatic THEN issues
  ELSE validate_vast_request(vast_request, implementation_type, programmatic,
                             decode_params).issues

\* C13: for every request, known context and decode flag, the issue list of
\* the call with programmatic=false is a subsequence of the list of the call
\* with programmatic=true; what the latter adds are issues that name
\* parameters of the programmatic_required tier; and with programmatic=false
\* no issue names a parameter declared only in that tier, be it absent from
\* the request or present in it.
C13_ProgrammaticOnlyAddsItsTier ==
  (pc = "returned" /\ Known)
  => LET without == IssuesWith(FALSE)
         with    == IssuesWith(TRUE)
     IN  /\ IsSubsequenceFrom(without, with, 1, 1)
         /\ IssuesNotNaming(with, TierNames("programmatic_required")) = without
         /\ \A k \in 1..Len(without) :
              without[k].parameter \notin ProgrammaticOnly

\* C13 witness: a ctv call with programmatic=true has returned the one issue
\* for plcmt=abc, and the same call with programmatic=false returns none.
C13_Witness ==
  /\ pc = "returned"
  /\ implementation_type = "ctv"
  /\ is_programmatic
  /\ request_shape.kind = "replaced"
  /\ request_shape.name = "plcmt"
  /\ present_params["plcmt"] = "abc"
  /\ "plcmt" \in ProgrammaticOnly
  /\ Len(issues) = 1
  /\ issues[1].parameter = "plcmt"
  /\ IssuesWith(FALSE) = <<>>
====
